---- MODULE Spec2Model ----
(***************************************************************************)
(* A model of the blockchain client: canonical hashing, the Merkle engine, *)
(* transaction selection, proof-of-work mining, block validation and the   *)
(* produce_blocks loop.                                                    *)
(*                                                                         *)
(* Hashes.  Every hash of the program is the string "0x" followed by a     *)
(* fixed number of lowercase hex digits.  The model writes a hash as the   *)
(* natural number those digits denote: string comparison of two hashes is  *)
(* numeric comparison, and the all-zero null hash is 0.  SHA-256 itself is *)
(* not computed.  On transaction serializations and on concatenated pairs  *)
(* of hash bodies it is an injective code (no collisions); on block header *)
(* serializations it is an unknown function: the digest of a header that   *)
(* was never hashed before is chosen freely among sample digests, and is   *)
(* remembered in sha_memo so that hashing the same header again gives the  *)
(* same digest.                                                            *)
(***************************************************************************)
EXTENDS Integers, Sequences, FiniteSets, TLC

\* ------------------------------------------------------------------ bounds

\* Longest leaf list handed to the Merkle engine.
MaxLeaves == 4

\* Leaf hashes are drawn from 0..MaxLeafHash (0 is the null hash).
MaxLeafHash == 3

\* Longest mempool handed to select_transactions on its own, and the largest
\* max_count tried there.
MaxSelect == 3

\* Longest mempool handed to produce_blocks.
MaxMempool == 3

\* The chain is grown to at most MaxBlocks blocks beyond its first input.
MaxBlocks == 2

\* block.py sets MAX_TRANSACTIONS_PER_BLOCK = 100; the model caps a block at
\* fewer transactions so that mempools of MaxMempool entries overflow it.
MAX_TRANSACTIONS_PER_BLOCK == 2

\* The proof-of-work search is followed through nonces 0..MaxNonce.
MaxNonce == 1

\* A digest has HexLen hex digits (64 in the program); sample digests have
\* 0..MaxZeros leading zero digits.
HexLen == 6
MaxZeros == 2

\* Longest sibling list handed to verify_merkle_proof on its own.
MaxSiblings == 2

\* ---------------------------------------------------------------- hashing

HexBase == 16

\* merkle.py: NULL_HASH = "0x" + "0" * 64
NULL_HASH == 0

\* SHA-256 of two concatenated hash bodies, as an injective code of the
\* ordered pair <<x, y>> that lies above every leaf hash.
SHA256Pair(combined) ==
    LET x == combined[1]
        y == combined[2]
    IN  MaxLeafHash + 1 +
        (IF x <= y THEN 2 * ((y * (y + 1)) \div 2 + x)
                   ELSE 2 * ((x * (x + 1)) \div 2 + y) + 1)

\* Plausible slip: only the larger body reaches the hash.
hash_pair_dropping_smaller(a, b) ==
    IF a < b THEN SHA256Pair(<<b, b>>) ELSE SHA256Pair(<<a, a>>)

\* Plausible slip: the bodies are concatenated as they come, unsorted.
hash_pair_unsorted(a, b) == SHA256Pair(<<a, b>>)

\* merkle.py hash_pair: the bodies concatenated in ascending order of the
\* two strings, then hashed.
hash_pair(a, b) ==
    LET combined == IF a < b THEN <<a, b>> ELSE <<b, a>>
    IN  SHA256Pair(combined)

\* ----------------------------------------------------------- Merkle engine

\* One pass of the pairing loop: adjacent nodes left to right, the last node
\* of an odd level paired with NULL_HASH.  Python index i is TLA+ index i+1.
NextLevel(current_level) ==
    [k \in 1..((Len(current_level) + 1) \div 2) |->
        LET left  == current_level[2 * k - 1]
            right == IF 2 * k <= Len(current_level)
                     THEN current_level[2 * k] ELSE NULL_HASH
        IN  hash_pair(left, right)]

RECURSIVE ReduceLevels(_)
ReduceLevels(current_level) ==
    IF Len(current_level) > 1
    THEN ReduceLevels(NextLevel(current_level))
    ELSE current_level[1]

\* merkle.py build_merkle_tree
build_merkle_tree(tx_hashes) ==
    IF tx_hashes = <<>> THEN NULL_HASH
    ELSE IF Len(tx_hashes) = 1 THEN tx_hashes[1]
    ELSE ReduceLevels(tx_hashes)

\* Plausible slip: the left node is recorded for the pair that starts at the
\* tracked index.
LevelSibling_left_for_left(current_level, current_index) ==
    LET n == Len(current_level)
    IN  IF current_index \in 0..(n - 1) /\ current_index % 2 = 0
        THEN <<current_level[current_index + 1]>>
        ELSE IF (current_index - 1) \in 0..(n - 1) /\ (current_index - 1) % 2 = 0
        THEN <<current_level[current_index]>>
        ELSE <<>>

\* What one pass of the loop of build_merkle_tree_with_proof appends to the
\* proof: for the pair starting at i (i = 0, 2, 4, ... below the level's
\* length), the right node when i is the tracked index, the left node when
\* i + 1 is; nothing when no pair holds the tracked index.
LevelSibling(current_level, current_index) ==
    LET n == Len(current_level)
    IN  IF current_index \in 0..(n - 1) /\ current_index % 2 = 0
        THEN <<IF current_index + 1 < n
               THEN current_level[current_index + 2] ELSE NULL_HASH>>
        ELSE IF (current_index - 1) \in 0..(n - 1) /\ (current_index - 1) % 2 = 0
        THEN <<current_level[current_index]>>
        ELSE <<>>

RECURSIVE ProofLevels(_, _, _)
ProofLevels(current_level, current_index, proof) ==
    IF Len(current_level) > 1
    THEN ProofLevels(NextLevel(current_level),
                     current_index \div 2,
                     proof \o LevelSibling(current_level, current_index))
    ELSE [raised |-> FALSE, root |-> current_level[1], proof |-> proof]

\* merkle.py build_merkle_tree_with_proof.  raised = TRUE stands for the
\* ValueError("Invalid transaction index"); root and proof then carry nothing.
build_merkle_tree_with_proof(tx_hashes, tx_index) ==
    IF tx_hashes = <<>> \/ tx_index >= Len(tx_hashes)
    THEN [raised |-> TRUE, root |-> NULL_HASH, proof |-> <<>>]
    ELSE IF Len(tx_hashes) = 1
    THEN [raised |-> FALSE, root |-> tx_hashes[1], proof |-> <<>>]
    ELSE ProofLevels(tx_hashes, tx_index, <<>>)

RECURSIVE FoldProof(_, _, _)
FoldProof(current, current_index, proof) ==
    IF proof = <<>> THEN current
    ELSE LET sibling == Head(proof)
             next == IF current_index % 2 = 0
                     THEN hash_pair(current, sibling)
                     ELSE hash_pair(sibling, current)
         IN  FoldProof(next, current_index \div 2, Tail(proof))

\* merkle.py verify_merkle_proof.  total_txs only feeds current_level_size,
\* which is never read.
verify_merkle_proof(tx_hash, proof, merkle_root, tx_index, total_txs) ==
    FoldProof(tx_hash, tx_index, proof) = merkle_root

\* ------------------------------------------------------- serialization.py

\* Every key of a transaction or a block header, in the order sorted() gives.
KeyOrder ==
    <<"amount", "difficulty", "hash", "height", "lock_time", "miner", "nonce",
      "previous_block_header_hash", "timestamp", "transaction_fee",
      "transactions_count", "transactions_merkle_root">>

\* The values of a mapping in ascending order of their keys.  Joining them
\* with "," is one-to-one on integers and hashes, so the model keeps the
\* sequence of values as the serialized string.
SortedValues(fields) ==
    LET sorted_keys == SelectSeq(KeyOrder, LAMBDA k : k \in DOMAIN fields)
    IN  [j \in 1..Len(sorted_keys) |-> fields[sorted_keys[j]]]

\* serialization.py serialize_transaction
serialize_transaction(transaction) == SortedValues(transaction)

\* serialization.py serialize_block_header: the hash field is left out.
serialize_block_header(header) ==
    LET header_copy == [k \in (DOMAIN header) \ {"hash"} |-> header[k]]
    IN  SortedValues(header_copy)

\* block.py: the timestamps the chain uses.
GENESIS_TIMESTAMP == 1697412600
BLOCK_TIME == 10

\* The transaction contents the model works with: two transactions of equal
\* fee that are executable in the genesis block, and a better paying one
\* that is locked until the block after it.
TxUniverse ==
    <<[amount |-> 1, lock_time |-> GENESIS_TIMESTAMP - 1, transaction_fee |-> 5],
      [amount |-> 2, lock_time |-> GENESIS_TIMESTAMP - 1, transaction_fee |-> 5],
      [amount |-> 3, lock_time |-> GENESIS_TIMESTAMP, transaction_fee |-> 9]>>

\* SHA-256 of a serialized transaction: its place in the list of the model's
\* transaction contents, a hash in 1..MaxLeafHash that no other one shares.
SHA256Tx(serialized) ==
    CHOOSE k \in 1..Len(TxUniverse) :
        serialize_transaction(TxUniverse[k]) = serialized

\* serialization.py hash_transaction
hash_transaction(transaction) == SHA256Tx(serialize_transaction(transaction))

\* The hex digits of a hash, most significant first.
Hex(h) == [k \in 1..HexLen |-> (h \div (HexBase ^ (HexLen - k))) % HexBase]

\* str.startswith("0x" + "0" * difficulty)
StartsWithZeros(h, difficulty) ==
    /\ difficulty <= HexLen
    /\ \A k \in 1..difficulty : Hex(h)[k] = 0

\* Number of zero digits a hash starts with.
LeadingZeros(h) ==
    Cardinality({d \in 1..HexLen : StartsWithZeros(h, d)})

RECURSIVE Salt(_, _)
\* A number below HexBase ^ (HexLen - 1 - MaxZeros) mixed from a serialized
\* header, so that different headers tend to get different digests.
Salt(serialized, k) ==
    IF k > Len(serialized) THEN 0
    ELSE (k * (serialized[k] % 1009) + Salt(serialized, k + 1))
            % (HexBase ^ (HexLen - 1 - MaxZeros))

\* The digest with exactly z leading zero digits that SHA-256 may give a
\* serialized header.
SampleDigest(serialized, z) ==
    HexBase ^ (HexLen - 1 - z) + Salt(serialized, 1)

\* SHA-256 of a serialized header: the remembered digest when the string was
\* hashed before, any sample digest otherwise.
SHA256Header(memo, serialized) ==
    IF \E q \in memo : q[1] = serialized
    THEN {q[2] : q \in {r \in memo : r[1] = serialized}}
    ELSE {SampleDigest(serialized, z) : z \in 0..MaxZeros}

\* serialization.py hash_block_header: the digests the call may return.
hash_block_header(memo, header) ==
    SHA256Header(memo, serialize_block_header(header))

\* ------------------------------------------------------------ block.py

MAX_DIFFICULTY == 6
DIFFICULTY_INCREASE_INTERVAL == 50

\* block.py calculate_difficulty
calculate_difficulty(height) ==
    LET difficulty == 1 + (height \div DIFFICULTY_INCREASE_INTERVAL)
    IN  IF difficulty < MAX_DIFFICULTY THEN difficulty ELSE MAX_DIFFICULTY

\* A transaction in a list is a Python object: id stands for the object's
\* identity, tx for the dictionary's contents.  Equality of transactions
\* (==, in, list.remove) reads tx only.
Fee(obj) == obj.tx.transaction_fee

RECURSIVE InsertByFeeTiesFirst(_, _)
\* Plausible slip: an ascending sort read backwards, which turns ties around.
InsertByFeeTiesFirst(sorted, obj) ==
    IF sorted = <<>> THEN <<obj>>
    ELSE IF Fee(Head(sorted)) > Fee(obj)
         THEN <<Head(sorted)>> \o InsertByFeeTiesFirst(Tail(sorted), obj)
         ELSE <<obj>> \o sorted

RECURSIVE InsertByFee(_, _)
\* obj put behind every entry of the descending list whose fee is not lower.
InsertByFee(sorted, obj) ==
    IF sorted = <<>> THEN <<obj>>
    ELSE IF Fee(Head(sorted)) >= Fee(obj)
         THEN <<Head(sorted)>> \o InsertByFee(Tail(sorted), obj)
         ELSE <<obj>> \o sorted

RECURSIVE SortByFeeDescending(_, _)
\* list.sort(key=fee, reverse=True): a stable sort, entries of equal fee keep
\* their order.
SortByFeeDescending(sorted, rest) ==
    IF rest = <<>> THEN sorted
    ELSE SortByFeeDescending(InsertByFee(sorted, Head(rest)), Tail(rest))

\* block.py select_transactions (max_count >= 0)
select_transactions(mempool, next_block_timestamp, max_count) ==
    LET Executable(obj) == obj.tx.lock_time < next_block_timestamp
        executable == SortByFeeDescending(<<>>, SelectSeq(mempool, Executable))
    IN  SubSeq(executable, 1,
               IF max_count < Len(executable) THEN max_count ELSE Len(executable))

\* The hashes of a list of transaction objects.
TxHashes(transactions) ==
    [j \in 1..Len(transactions) |-> hash_transaction(transactions[j].tx)]

\* Plausible slip: the Merkle root of the header is never filled in.
create_block_header_without_root(height, previous_hash, timestamp, transactions, miner) ==
    [difficulty |-> calculate_difficulty(height),
     height |-> height,
     miner |-> miner,
     nonce |-> 0,
     previous_block_header_hash |-> previous_hash,
     timestamp |-> timestamp,
     transactions_count |-> Len(transactions),
     transactions_merkle_root |-> NULL_HASH]

\* block.py create_block_header: the header has no hash yet.
create_block_header(height, previous_hash, timestamp, transactions, miner) ==
    [difficulty |-> calculate_difficulty(height),
     height |-> height,
     miner |-> miner,
     nonce |-> 0,
     previous_block_header_hash |-> previous_hash,
     timestamp |-> timestamp,
     transactions_count |-> Len(transactions),
     transactions_merkle_root |-> build_merkle_tree(TxHashes(transactions))]

\* Plausible slip: the required prefix is one zero short.
MeetsDifficultyOneShort(block_hash, difficulty) ==
    StartsWithZeros(block_hash, difficulty - 1)

\* block.py mine_block, validate_block:
\* block_hash.startswith("0x" + "0" * difficulty)
MeetsDifficulty(block_hash, difficulty) ==
    StartsWithZeros(block_hash, difficulty)

\* Plausible slip: the check of the previous hash is left out.
validate_block_height_only(block, previous_block) ==
    LET header == block.header
    IN  /\ previous_block # <<>> =>
              header.height = previous_block[1].header.height + 1
        /\ MeetsDifficulty(header.hash, header.difficulty)
        /\ header.transactions_merkle_root =
              build_merkle_tree(TxHashes(block.transactions))

\* block.py validate_block.  previous_block is <<>> for None and a
\* one-element sequence holding the block otherwise.
validate_block(block, previous_block) ==
    LET header == block.header
        transactions == block.transactions
    IN  IF /\ previous_block # <<>>
           /\ header.height # previous_block[1].header.height + 1
        THEN FALSE
        ELSE IF /\ previous_block # <<>>
                /\ header.previous_block_header_hash
                      # previous_block[1].header.hash
        THEN FALSE
        ELSE IF ~MeetsDifficulty(header.hash, header.difficulty)
        THEN FALSE
        ELSE IF header.transactions_merkle_root
                  # build_merkle_tree(TxHashes(transactions))
        THEN FALSE
        ELSE TRUE

\* --------------------------------------------------------- blockchain.py

\* blockchain.py get_latest_block: <<>> stands for None.
get_latest_block(blockchain) ==
    IF blockchain = <<>> THEN <<>> ELSE <<blockchain[Len(blockchain)]>>

\* Plausible slip: the new block repeats the link of the latest block.
NextBlockFieldsStaleLink(latest_block) ==
    IF latest_block # <<>>
    THEN [height |-> latest_block[1].header.height + 1,
          previous_hash |-> latest_block[1].header.previous_block_header_hash,
          timestamp |-> latest_block[1].header.timestamp + BLOCK_TIME]
    ELSE [height |-> 0, previous_hash |-> NULL_HASH,
          timestamp |-> GENESIS_TIMESTAMP]

\* produce_blocks: height, previous hash and timestamp of the next block.
NextBlockFields(latest_block) ==
    IF latest_block # <<>>
    THEN [height |-> latest_block[1].header.height + 1,
          previous_hash |-> latest_block[1].header.hash,
          timestamp |-> latest_block[1].header.timestamp + BLOCK_TIME]
    ELSE [height |-> 0, previous_hash |-> NULL_HASH,
          timestamp |-> GENESIS_TIMESTAMP]

\* tx in mempool: some entry has the same contents.
InList(obj, mempool) == \E j \in 1..Len(mempool) : mempool[j].tx = obj.tx

\* Plausible slip: every entry with the same contents is dropped.
RemoveEveryEqual(mempool, obj) ==
    SelectSeq(mempool, LAMBDA o : o.tx # obj.tx)

RECURSIVE ListRemove(_, _)
\* list.remove(tx): the first entry with the same contents is dropped.
ListRemove(mempool, obj) ==
    IF mempool = <<>> THEN <<>>
    ELSE IF Head(mempool).tx = obj.tx THEN Tail(mempool)
    ELSE <<Head(mempool)>> \o ListRemove(Tail(mempool), obj)

RECURSIVE RemoveSelected(_, _)
\* produce_blocks: for tx in selected_txs: if tx in mempool: mempool.remove(tx)
RemoveSelected(mempool, selected_txs) ==
    IF selected_txs = <<>> THEN mempool
    ELSE RemoveSelected(
             IF InList(Head(selected_txs), mempool)
             THEN ListRemove(mempool, Head(selected_txs)) ELSE mempool,
             Tail(selected_txs))

\* Plausible slip: the loop works on the caller's list itself.
CallersListAliased(callers_list, local_list) == local_list

\* produce_blocks: blockchain.copy() and mempool.copy() give the loop lists
\* of its own, so a write to the local list leaves the caller's list as it
\* was.
CallersList(callers_list, local_list) == callers_list

\* ------------------------------------------------------------------ state

VARIABLES
    caller_chain,    \* the list the caller passed as blockchain
    caller_mempool,  \* the list the caller passed as mempool
    entry_chain,     \* contents of the caller's chain when the call began
    entry_mempool,   \* contents of the caller's mempool when the call began
    made,            \* blocks produced since the start
    pc,              \* where the running call stands
    count,           \* produce_blocks: count
    i,               \* produce_blocks: loop counter
    blockchain,      \* produce_blocks: the local chain
    mempool,         \* produce_blocks: the local mempool
    selected_txs,    \* produce_blocks: the transactions of the next block
    header,          \* create_block, mine_block: the header being mined
    nonce,           \* mine_block: nonce
    sha_memo,        \* header strings hashed so far, with their digests
    result,          \* the tuple produce_blocks returned
    val,             \* one use of validate_block: inputs and verdict
    sel,             \* one use of select_transactions: inputs and result
    merkle,          \* one use of the Merkle engine: inputs, result, verdict
    ser,             \* one use of a serializer: inputs and outcome
    incl             \* one use of verify_inclusion_proof: inputs and outcome

produceVars ==
    <<caller_chain, caller_mempool, entry_chain, entry_mempool, made, pc, count, i, blockchain, mempool, selected_txs, header, nonce,
      sha_memo, result>>

vars == <<produceVars, val, sel, merkle, ser, incl>>

\* cli.py cmd_produce_blocks: the miner address, written as a number.
DefaultMiner == 7

NoHeader == [nonce |-> 0]

MerkleIdle ==
    [pc |-> "idle", tx_hashes |-> <<>>, tx_index |-> 0,
     root |-> NULL_HASH, proof |-> <<>>,
     tampered |-> "none", honest |-> FALSE, verdict |-> FALSE]

SelectIdle ==
    [pc |-> "idle", mempool |-> <<>>, next_block_timestamp |-> 0,
     max_count |-> 0, selected |-> <<>>]

NoBlock == [header |-> NoHeader, transactions |-> <<>>]

ValidateIdle ==
    [pc |-> "idle", height |-> 0, previous_hash |-> NULL_HASH,
     timestamp |-> 0, kind |-> "none", original |-> NoBlock,
     block |-> NoBlock, previous_block |-> <<>>, valid |-> FALSE]

SerializeIdle ==
    [pc |-> "idle", kind |-> "none", fields |-> <<>>,
     raised |-> FALSE, text |-> ""]

InclusionIdle ==
    [pc |-> "idle", block |-> NoBlock, tx_hash |-> NULL_HASH,
     proof |-> <<>>, blockchain |-> <<>>, outcome |-> "none"]

\* The uses of single functions that are not under way.
OthersIdle == ser = SerializeIdle /\ incl = InclusionIdle

\* No call of produce_blocks is running and none has run.
ProduceIdle ==
    /\ caller_chain = <<>> /\ caller_mempool = <<>>
    /\ entry_chain = <<>> /\ entry_mempool = <<>>
    /\ made = 0
    /\ pc = "idle" /\ count = 0 /\ i = 0
    /\ blockchain = <<>> /\ mempool = <<>> /\ selected_txs = <<>>
    /\ header = NoHeader /\ nonce = 0 /\ sha_memo = {}
    /\ result = [chain |-> <<>>, mempool |-> <<>>]

\* A list of transaction contents as a list of objects, the object at
\* position j having identity j.
AsObjects(txs) == [j \in 1..Len(txs) |-> [id |-> j, tx |-> txs[j]]]

TxValues == {TxUniverse[k] : k \in 1..Len(TxUniverse)}

TxLists(longest) ==
    {AsObjects(txs) : txs \in UNION {[1..n -> TxValues] : n \in 0..longest}}

\* ------------------------------------------------------- produce_blocks

Init ==
    /\ val = ValidateIdle /\ sel = SelectIdle /\ merkle = MerkleIdle
    /\ OthersIdle
    /\ ProduceIdle

\* The identities of a list's objects renumbered by position, as after the
\* list was saved and loaded again.
Reloaded(list) == [j \in 1..Len(list) |-> [id |-> j, tx |-> list[j].tx]]

\* cli.py cmd_produce_blocks calls produce_blocks(blockchain, mempool, n,
\* miner_address).  The first call is given the empty chain and any mempool;
\* a later call is given the chain and the mempool the call before it
\* returned.
\* produce_blocks starts by copying both lists.
Call ==
    /\ \/ pc = "idle"
       \/ pc = "done" /\ made < MaxBlocks
    /\ \E mp \in IF pc = "idle" THEN TxLists(MaxMempool)
                  ELSE {Reloaded(result.mempool)} :
         \E n \in 0..(MaxBlocks - made) :
             /\ caller_chain' = IF pc = "done" THEN result.chain ELSE caller_chain
             /\ caller_mempool' = mp
             /\ entry_chain' = caller_chain'
             /\ entry_mempool' = mp
             /\ count' = n
             /\ blockchain' = caller_chain'
             /\ mempool' = mp
             /\ i' = 0
             /\ pc' = "loop"
    /\ UNCHANGED <<made, selected_txs, header, nonce, sha_memo,
                   result, val, sel, merkle, ser, incl>>

\* One pass of the loop up to the call of mine_block: the next block's
\* fields, the selection, and create_block's header.
LoopHead ==
    /\ pc = "loop"
    /\ i < count
    /\ LET next == NextBlockFields(get_latest_block(blockchain))
           txs == select_transactions(mempool, next.timestamp,
                                      MAX_TRANSACTIONS_PER_BLOCK)
       IN  /\ selected_txs' = txs
           /\ header' = create_block_header(next.height, next.previous_hash,
                                            next.timestamp, txs, DefaultMiner)
    /\ nonce' = 0
    /\ pc' = "mine"
    /\ UNCHANGED <<caller_chain, caller_mempool, entry_chain, entry_mempool,
                   made, count, i, blockchain, mempool, sha_memo,
                   result, val, sel, merkle, ser, incl>>

\* One pass of the loop of mine_block: the header takes the nonce and is
\* hashed; a hash with the required prefix is stored in the header and the
\* search returns, any other hash moves the search to the next nonce.
MineStep ==
    /\ pc = "mine"
    /\ nonce <= MaxNonce
    /\ LET tried == [header EXCEPT !.nonce = nonce]
       IN  \E block_hash \in hash_block_header(sha_memo, tried) :
             /\ sha_memo' = sha_memo \cup
                             {<<serialize_block_header(tried), block_hash>>}
             /\ IF MeetsDifficulty(block_hash, tried.difficulty)
                THEN /\ header' = [hash |-> block_hash] @@ tried
                     /\ nonce' = nonce
                     /\ pc' = "mined"
                ELSE /\ header' = tried
                     /\ nonce' = nonce + 1
                     /\ pc' = "mine"
    /\ UNCHANGED <<caller_chain, caller_mempool, entry_chain, entry_mempool,
                   made, count, i, blockchain, mempool,
                   selected_txs, result, val, sel, merkle, ser, incl>>

\* The rest of the pass: create_block wraps the mined header and the
\* transactions, the block is appended, the selected transactions leave
\* the mempool.
AppendBlock ==
    /\ pc = "mined"
    /\ LET new_block == [header |-> header, transactions |-> selected_txs]
       IN  blockchain' = Append(blockchain, new_block)
    /\ mempool' = RemoveSelected(mempool, selected_txs)
    /\ caller_chain' = CallersList(caller_chain, blockchain')
    /\ caller_mempool' = CallersList(caller_mempool, mempool')
    /\ i' = i + 1
    /\ made' = made + 1
    /\ pc' = "loop"
    /\ UNCHANGED <<entry_chain, entry_mempool, count,
                   selected_txs, header, nonce, sha_memo, result,
                   val, sel, merkle, ser, incl>>

\* return blockchain, mempool: the frames of the call are gone.
Return ==
    /\ pc = "loop"
    /\ i = count
    /\ result' = [chain |-> blockchain, mempool |-> mempool]
    /\ pc' = "done"
    /\ selected_txs' = <<>>
    /\ header' = NoHeader
    /\ nonce' = 0
    /\ UNCHANGED <<caller_chain, caller_mempool, entry_chain, entry_mempool,
                   made, count, i, blockchain, mempool,
                   sha_memo, val, sel, merkle, ser, incl>>

Next == Call \/ LoopHead \/ MineStep \/ AppendBlock \/ Return

Spec == Init /\ [][Next]_vars

\* ------------------------------------- create_block and validate_block

\* A hash that belongs to no block of the model.
StrangerHash == SampleDigest(<<0>>, 0)

\* The hash of the block before height 50 in the chain create_block is
\* called for.
Hash49 == SampleDigest(<<49>>, 1)

\* create_block is called for the genesis block or for the block of height
\* 50, the first of difficulty 2, with any list of transactions.
InitValidate ==
    /\ sel = SelectIdle /\ merkle = MerkleIdle /\ OthersIdle
    /\ caller_chain = <<>> /\ caller_mempool = <<>>
    /\ entry_chain = <<>> /\ entry_mempool = <<>>
    /\ made = 0 /\ count = 0 /\ i = 0
    /\ blockchain = <<>> /\ mempool = <<>>
    /\ header = NoHeader /\ nonce = 0 /\ sha_memo = {}
    /\ result = [chain |-> <<>>, mempool |-> <<>>]
    /\ pc = "create"
    /\ selected_txs \in TxLists(MaxMempool)
    /\ \E h \in {0, DIFFICULTY_INCREASE_INTERVAL} :
         val = [ValidateIdle EXCEPT
                   !.pc = "input",
                   !.height = h,
                   !.previous_hash = IF h = 0 THEN NULL_HASH ELSE Hash49,
                   !.timestamp = GENESIS_TIMESTAMP + h * BLOCK_TIME]

\* create_block up to the call of mine_block.
CreateBlock ==
    /\ pc = "create"
    /\ header' = create_block_header(val.height, val.previous_hash,
                                     val.timestamp, selected_txs, DefaultMiner)
    /\ nonce' = 0
    /\ pc' = "mine"
    /\ UNCHANGED <<caller_chain, caller_mempool, entry_chain, entry_mempool,
                   made, count, i, blockchain, mempool, selected_txs,
                   sha_memo, result, val, sel, merkle, ser, incl>>

\* The list with entries j and j + 1 exchanged.
Swapped(list, j) ==
    [k \in 1..Len(list) |->
        IF k = j THEN list[j + 1] ELSE IF k = j + 1 THEN list[j] ELSE list[k]]

\* The list without entry j.
Without(list, j) ==
    [k \in 1..(Len(list) - 1) |-> IF k < j THEN list[k] ELSE list[k + 1]]

\* The list with obj put in as entry j.
Inserted(list, j, obj) ==
    SubSeq(list, 1, j - 1) \o <<obj>> \o SubSeq(list, j, Len(list))

\* What may have been done to a block before it is validated: nothing, a
\* change of its transaction list, or a change of one header field.
Alterations(block) ==
    LET txs == block.transactions
        WithTxs(kind, list) ==
            [kind |-> kind, block |-> [block EXCEPT !.transactions = list]]
    IN  {[kind |-> "none", block |-> block]}
        \cup {WithTxs("reordered", Swapped(txs, j)) : j \in 1..(Len(txs) - 1)}
        \cup {WithTxs("replaced", [txs EXCEPT ![j].tx = t]) :
                  j \in 1..Len(txs), t \in TxValues}
        \cup {WithTxs("added", Inserted(txs, j, [id |-> Len(txs) + 1, tx |-> t])) :
                  j \in 1..(Len(txs) + 1), t \in TxValues}
        \cup {WithTxs("removed", Without(txs, j)) : j \in 1..Len(txs)}
        \cup {[kind |-> "height",
               block |-> [block EXCEPT !.header.height = @ + 1]],
              [kind |-> "previous_hash",
               block |-> [block EXCEPT
                   !.header.previous_block_header_hash = StrangerHash]],
              [kind |-> "difficulty",
               block |-> [block EXCEPT !.header.difficulty = @ + 1]]}

\* A block of the given height and hash, to stand before another one.
BlockBefore(height, hash) ==
    [header |-> [difficulty |-> calculate_difficulty(height),
                 hash |-> hash,
                 height |-> height,
                 miner |-> DefaultMiner,
                 nonce |-> 0,
                 previous_block_header_hash |-> NULL_HASH,
                 timestamp |-> GENESIS_TIMESTAMP + height * BLOCK_TIME,
                 transactions_count |-> 0,
                 transactions_merkle_root |-> NULL_HASH],
     transactions |-> <<>>]

\* The previous_block arguments tried with a block: None, and blocks whose
\* height and hash do or do not fit the block's header.
PreviousBlocks(block) ==
    {<<>>} \cup
    {<<BlockBefore(h, hash)>> :
        h \in {block.header.height - 1, block.header.height} \cap Nat,
        hash \in {block.header.previous_block_header_hash, StrangerHash + 1}}

\* create_block returns the block; it is validated as it is or after one
\* alteration.
ValidateBlock ==
    /\ pc = "mined"
    /\ LET created == [header |-> header, transactions |-> selected_txs]
       IN  \E a \in Alterations(created) :
             \E previous_block \in PreviousBlocks(created) :
               val' = [val EXCEPT
                   !.pc = "validated",
                   !.kind = a.kind,
                   !.original = created,
                   !.block = a.block,
                   !.previous_block = previous_block,
                   !.valid = validate_block(a.block, previous_block)]
    /\ pc' = "validated"
    /\ UNCHANGED <<caller_chain, caller_mempool, entry_chain, entry_mempool,
                   made, count, i, blockchain, mempool, selected_txs, header,
                   nonce, sha_memo, result, sel, merkle, ser, incl>>

NextValidate == CreateBlock \/ MineStep \/ ValidateBlock

SpecValidate == InitValidate /\ [][NextValidate]_vars

\* ------------------------------------------------- the Merkle engine in use

LeafLists == UNION {[1..n -> 0..MaxLeafHash] : n \in 0..MaxLeaves}

InitMerkle ==
    /\ ProduceIdle /\ val = ValidateIdle /\ sel = SelectIdle /\ OthersIdle
    /\ \E leaves \in LeafLists :
         \E index \in (-2)..(Len(leaves) + 1) :
             merkle = [MerkleIdle EXCEPT !.pc = "input",
                                         !.tx_hashes = leaves,
                                         !.tx_index = index]

\* A caller asks for the proof of tx_hashes[tx_index].
MerkleBuild ==
    /\ merkle.pc = "input"
    /\ LET r == build_merkle_tree_with_proof(merkle.tx_hashes, merkle.tx_index)
       IN  merkle' = [merkle EXCEPT !.pc = IF r.raised THEN "raised" ELSE "built",
                                    !.root = r.root,
                                    !.proof = r.proof]
    /\ UNCHANGED <<produceVars, val, sel, ser, incl>>

ValidIndex == merkle.tx_index \in 0..(Len(merkle.tx_hashes) - 1)

\* The proof as built, checked against the root of build_merkle_tree.
HonestVerdict ==
    verify_merkle_proof(merkle.tx_hashes[merkle.tx_index + 1], merkle.proof,
                        build_merkle_tree(merkle.tx_hashes),
                        merkle.tx_index, Len(merkle.tx_hashes))

MerkleVerify ==
    /\ merkle.pc = "built"
    /\ ValidIndex
    /\ merkle' = [merkle EXCEPT !.pc = "verified",
                                !.tampered = "none",
                                !.honest = HonestVerdict,
                                !.verdict = HonestVerdict]
    /\ UNCHANGED <<produceVars, val, sel, ser, incl>>

RECURSIVE LevelAt(_, _)
\* The level k passes of the pairing loop above the leaves.
LevelAt(leaves, k) ==
    IF k = 0 THEN leaves ELSE LevelAt(NextLevel(leaves), k - 1)

\* Hash values an altered proof may carry in place of a node of level k:
\* every leaf value and every node of that level of the tree.
OtherHashes(k) ==
    (0..MaxLeafHash)
      \cup {LevelAt(merkle.tx_hashes, k)[j] :
                j \in 1..Len(LevelAt(merkle.tx_hashes, k))}

\* One part of the proof is replaced by a different hash before the check.
MerkleVerifyTampered ==
    /\ merkle.pc = "built"
    /\ ValidIndex
    /\ LET leaf == merkle.tx_hashes[merkle.tx_index + 1]
           root == build_merkle_tree(merkle.tx_hashes)
           n    == Len(merkle.tx_hashes)
       IN  \/ \E h \in OtherHashes(0) \ {leaf} :
                 merkle' = [merkle EXCEPT
                     !.pc = "verified", !.tampered = "leaf",
                     !.honest = HonestVerdict,
                     !.verdict = verify_merkle_proof(h, merkle.proof, root,
                                                     merkle.tx_index, n)]
           \/ \E k \in 1..Len(merkle.proof) :
                 \E h \in OtherHashes(k - 1) \ {merkle.proof[k]} :
                   merkle' = [merkle EXCEPT
                       !.pc = "verified", !.tampered = "sibling",
                       !.honest = HonestVerdict,
                       !.verdict = verify_merkle_proof(
                                       leaf, [merkle.proof EXCEPT ![k] = h],
                                       root, merkle.tx_index, n)]
           \/ \E h \in (OtherHashes(0) \cup OtherHashes(1)) \ {root} :
                 merkle' = [merkle EXCEPT
                     !.pc = "verified", !.tampered = "root",
                     !.honest = HonestVerdict,
                     !.verdict = verify_merkle_proof(leaf, merkle.proof, h,
                                                     merkle.tx_index, n)]
    /\ UNCHANGED <<produceVars, val, sel, ser, incl>>

NextMerkle == MerkleBuild \/ MerkleVerify \/ MerkleVerifyTampered

SpecMerkle == InitMerkle /\ [][NextMerkle]_vars

\* ------------------------------------------------------ mine_block in use

\* Plausible slip: the search goes on from the nonce the header came with.
FirstNonceFromHeader(block_header) == block_header.nonce

\* block.py mine_block: the nonce the search starts with.
FirstNonce(block_header) == 0

\* mine_block is called with a header for height 0 or 50 that carries any
\* nonce and, when it was mined before, the hash of that time.
InitMine ==
    /\ val = ValidateIdle /\ sel = SelectIdle /\ merkle = MerkleIdle
    /\ OthersIdle
    /\ caller_chain = <<>> /\ caller_mempool = <<>>
    /\ entry_chain = <<>> /\ entry_mempool = <<>>
    /\ made = 0 /\ count = 0 /\ i = 0
    /\ blockchain = <<>> /\ mempool = <<>>
    /\ nonce = 0 /\ sha_memo = {}
    /\ result = [chain |-> <<>>, mempool |-> <<>>]
    /\ pc = "mine_call"
    /\ selected_txs \in TxLists(MaxMempool)
    /\ \E h \in {0, DIFFICULTY_INCREASE_INTERVAL} :
         \E n \in 0..(MaxNonce + 1) :
           LET fresh == [create_block_header(
                            h, IF h = 0 THEN NULL_HASH ELSE Hash49,
                            GENESIS_TIMESTAMP + h * BLOCK_TIME,
                            selected_txs, DefaultMiner) EXCEPT !.nonce = n]
           IN  header \in {fresh, [hash |-> StrangerHash] @@ fresh}

\* mine_block up to its loop.
MineEntry ==
    /\ pc = "mine_call"
    /\ nonce' = FirstNonce(header)
    /\ pc' = "mine"
    /\ UNCHANGED <<caller_chain, caller_mempool, entry_chain, entry_mempool,
                   made, count, i, blockchain, mempool, selected_txs, header,
                   sha_memo, result, val, sel, merkle, ser, incl>>

NextMine == MineEntry \/ MineStep

SpecMine == InitMine /\ [][NextMine]_vars

\* ----------------------------------- verify_merkle_proof on any input

\* Any leaf hash, any list of up to MaxSiblings sibling hashes, and a root
\* that is a leaf value or what the siblings fold to from some position.
InitPosition ==
    /\ ProduceIdle /\ val = ValidateIdle /\ sel = SelectIdle /\ OthersIdle
    /\ \E tx_hash \in 0..MaxLeafHash :
         \E proof \in UNION {[1..n -> 0..MaxLeafHash] : n \in 0..MaxSiblings} :
           \E merkle_root \in
                 (0..MaxLeafHash) \cup
                 {FoldProof(tx_hash, at, proof) : at \in 0..(2 ^ MaxSiblings - 1)} :
             merkle = [pc |-> "input", tx_hash |-> tx_hash, proof |-> proof,
                       merkle_root |-> merkle_root,
                       first |-> <<>>, second |-> <<>>]

\* One call of verify_merkle_proof with the given position and total.
VerifyAt(tx_index, total_txs) ==
    [tx_index |-> tx_index, total_txs |-> total_txs,
     verdict |-> verify_merkle_proof(merkle.tx_hash, merkle.proof,
                                     merkle.merkle_root, tx_index, total_txs)]

\* Two callers check the same leaf, siblings and root, each with a position
\* and a total of their own.
VerifyTwice ==
    /\ merkle.pc = "input"
    /\ \E index1, index2 \in (-1)..(2 ^ MaxSiblings - 1) :
         \E total1 \in {0, MaxLeaves}, total2 \in {1, MaxLeaves} :
           merkle' = [merkle EXCEPT !.pc = "compared",
                                    !.first = VerifyAt(index1, total1),
                                    !.second = VerifyAt(index2, total2)]
    /\ UNCHANGED <<produceVars, val, sel, ser, incl>>

NextPosition == VerifyTwice

SpecPosition == InitPosition /\ [][NextPosition]_vars

\* ------------------------------------------------------------ proof.py

\* list.index(value): the first position, from 0, of the value; -1 stands
\* for the ValueError of a value that is not there.
ListIndex(list, value) ==
    IF \E j \in 1..Len(list) : list[j] = value
    THEN (CHOOSE j \in 1..Len(list) :
              list[j] = value /\ \A k \in 1..(j - 1) : list[k] # value) - 1
    ELSE -1

\* proof.py generate_inclusion_proof
generate_inclusion_proof(block, tx_hash) ==
    LET transactions == block.transactions
        tx_hashes == TxHashes(transactions)
        tx_index == ListIndex(tx_hashes, tx_hash)
        built == build_merkle_tree_with_proof(tx_hashes, tx_index)
    IN  IF tx_index < 0 \/ built.raised
        THEN [raised |-> TRUE, proof |-> <<>>]
        ELSE [raised |-> FALSE,
              proof |-> [block_height |-> block.header.height,
                         block_hash |-> block.header.hash,
                         transaction_hash |-> tx_hash,
                         transaction_index |-> tx_index,
                         merkle_root |-> built.root,
                         proof |-> built.proof,
                         total_transactions |-> Len(transactions)]]

\* proof.py verify_inclusion_proof: "true", "false", or "raised" for the
\* IndexError of blockchain[block_height].  The blockchain argument is <<>>
\* for None and <<list>> for a list; None and the empty list are both false
\* in a condition, and a negative index counts from the end of the list.
verify_inclusion_proof(proof, blockchain_arg) ==
    LET is_valid == verify_merkle_proof(proof.transaction_hash, proof.proof,
                                        proof.merkle_root,
                                        proof.transaction_index,
                                        proof.total_transactions)
        chain == IF blockchain_arg = <<>> THEN <<>> ELSE blockchain_arg[1]
        block_height == proof.block_height
        Answer(b) == IF b THEN "true" ELSE "false"
    IN  IF chain # <<>> /\ is_valid
        THEN IF block_height < Len(chain)
             THEN IF block_height < -Len(chain)
                  THEN "raised"
                  ELSE LET block == chain[IF block_height >= 0
                                          THEN block_height + 1
                                          ELSE Len(chain) + block_height + 1]
                           expected_merkle_root ==
                               block.header.transactions_merkle_root
                       IN  Answer(is_valid
                                  /\ proof.merkle_root = expected_merkle_root)
             ELSE Answer(is_valid)
        ELSE Answer(is_valid)

\* A mined block of the given height with the given transactions.
BlockAt(height, transactions) ==
    [header |-> [hash |-> StrangerHash + height]
                  @@ create_block_header(height, NULL_HASH,
                                         GENESIS_TIMESTAMP + height * BLOCK_TIME,
                                         transactions, DefaultMiner),
     transactions |-> transactions]

\* A proof is asked for a transaction hash and a block of up to
\* MAX_TRANSACTIONS_PER_BLOCK transactions.
InitInclusion ==
    /\ ProduceIdle /\ val = ValidateIdle /\ sel = SelectIdle
    /\ merkle = MerkleIdle /\ ser = SerializeIdle
    /\ \E transactions \in TxLists(MAX_TRANSACTIONS_PER_BLOCK) :
         \E height \in 0..(MaxBlocks - 1) :
           \E tx_hash \in 1..Len(TxUniverse) :
             incl = [InclusionIdle EXCEPT
                        !.pc = "input",
                        !.block = BlockAt(height, transactions),
                        !.tx_hash = tx_hash]

GenerateProof ==
    /\ incl.pc = "input"
    /\ LET r == generate_inclusion_proof(incl.block, incl.tx_hash)
       IN  incl' = [incl EXCEPT
                       !.pc = IF r.raised THEN "raised" ELSE "generated",
                       !.proof = r.proof]
    /\ UNCHANGED <<produceVars, val, sel, merkle, ser>>

\* The chains a proof is checked against: at every height the proof's
\* block or an empty block.
Chains ==
    UNION {[1..n -> {incl.block.transactions, <<>>}] : n \in 0..MaxBlocks}

\* The proof is presented as generated, or with another block height,
\* without a blockchain (None) or with one.
VerifyProof ==
    /\ incl.pc = "generated"
    /\ \E block_height \in (-MaxBlocks - 1)..MaxBlocks :
         \E blockchain_arg \in
               {<<>>} \cup {<<[k \in 1..Len(c) |-> BlockAt(k - 1, c[k])]>> :
                               c \in Chains} :
           LET proof == [incl.proof EXCEPT !.block_height = block_height]
           IN  incl' = [incl EXCEPT
                   !.pc = "verified",
                   !.proof = proof,
                   !.blockchain = blockchain_arg,
                   !.outcome = verify_inclusion_proof(proof, blockchain_arg)]
    /\ UNCHANGED <<produceVars, val, sel, merkle, ser>>

NextInclusion == GenerateProof \/ VerifyProof

SpecInclusion == InitInclusion /\ [][NextInclusion]_vars

\* ------------------------------------------------ the serializers in use

\* Python values a field may hold: type is the value's type, str the string
\* str(value) returns.
PyValues ==
    {[type |-> "int", str |-> "7"],
     [type |-> "bool", str |-> "True"],
     [type |-> "str", str |-> "0xab"],
     [type |-> "NoneType", str |-> "None"],
     [type |-> "float", str |-> "1.5"],
     [type |-> "list", str |-> "[1, 2]"]}

\* isinstance(value, int): bool is a subclass of int.
IsInstanceInt(value) == value.type \in {"int", "bool"}

\* One pass of the loop over the sorted keys: the text appended for a value.
ValueText(value) ==
    IF IsInstanceInt(value) THEN value.str ELSE value.str

RECURSIVE Join(_)
\* ','.join(values)
Join(values) ==
    IF values = <<>> THEN ""
    ELSE IF Len(values) = 1 THEN Head(values)
    ELSE Head(values) \o "," \o Join(Tail(values))

\* serialize_transaction on a dictionary of Python values: whether it raised
\* and the string it returned.
SerializeTransactionText(transaction) ==
    LET values == SortedValues(transaction)
    IN  [raised |-> FALSE,
         text |-> Join([j \in 1..Len(values) |-> ValueText(values[j])])]

\* serialize_block_header on a dictionary of Python values.
SerializeBlockHeaderText(block_header) ==
    LET values == serialize_block_header(block_header)
    IN  [raised |-> FALSE,
         text |-> Join([j \in 1..Len(values) |-> ValueText(values[j])])]

\* A transaction or a block header whose fields hold any Python values.
InitSerialize ==
    /\ ProduceIdle /\ val = ValidateIdle /\ sel = SelectIdle
    /\ merkle = MerkleIdle /\ incl = InclusionIdle
    /\ \/ \E fields \in [{"amount", "lock_time", "transaction_fee"} -> PyValues] :
            ser = [SerializeIdle EXCEPT !.pc = "input",
                                        !.kind = "transaction",
                                        !.fields = fields]
       \/ \E fields \in [{"hash", "height", "miner"} -> PyValues] :
            ser = [SerializeIdle EXCEPT !.pc = "input",
                                        !.kind = "block_header",
                                        !.fields = fields]

SerializeTransaction ==
    /\ ser.pc = "input" /\ ser.kind = "transaction"
    /\ LET r == SerializeTransactionText(ser.fields)
       IN  ser' = [ser EXCEPT !.pc = "done", !.raised = r.raised,
                              !.text = r.text]
    /\ UNCHANGED <<produceVars, val, sel, merkle, incl>>

SerializeBlockHeader ==
    /\ ser.pc = "input" /\ ser.kind = "block_header"
    /\ LET r == SerializeBlockHeaderText(ser.fields)
       IN  ser' = [ser EXCEPT !.pc = "done", !.raised = r.raised,
                              !.text = r.text]
    /\ UNCHANGED <<produceVars, val, sel, merkle, incl>>

NextSerialize == SerializeTransaction \/ SerializeBlockHeader

SpecSerialize == InitSerialize /\ [][NextSerialize]_vars

\* ------------------------------------------ select_transactions in use

\* Transaction contents for selection on its own: three lock times around
\* the first two block timestamps and three fees.
SelectTxValues ==
    {[amount |-> 0, lock_time |-> l, transaction_fee |-> f] :
        l \in {GENESIS_TIMESTAMP - 1, GENESIS_TIMESTAMP,
               GENESIS_TIMESTAMP + BLOCK_TIME},
        f \in 1..3}

InitSelect ==
    /\ ProduceIdle /\ val = ValidateIdle /\ merkle = MerkleIdle /\ OthersIdle
    /\ \E txs \in UNION {[1..n -> SelectTxValues] : n \in 0..MaxSelect} :
         \E t \in {GENESIS_TIMESTAMP, GENESIS_TIMESTAMP + BLOCK_TIME} :
             \E m \in 0..MaxSelect :
                 sel = [SelectIdle EXCEPT !.pc = "input",
                                          !.mempool = AsObjects(txs),
                                          !.next_block_timestamp = t,
                                          !.max_count = m]

SelectCall ==
    /\ sel.pc = "input"
    /\ sel' = [sel EXCEPT
                 !.pc = "selected",
                 !.selected = select_transactions(sel.mempool,
                                                  sel.next_block_timestamp,
                                                  sel.max_count)]
    /\ UNCHANGED <<produceVars, val, merkle, ser, incl>>

NextSelect == SelectCall

SpecSelect == InitSelect /\ [][NextSelect]_vars

\* ----------------------------------------------------------------- claims

\* C2: for every non-empty leaf list and every index in range, the siblings
\* returned by build_merkle_tree_with_proof verify against the root returned
\* by build_merkle_tree.
C2_ProofVerifies ==
    (merkle.pc = "verified" /\ merkle.tampered = "none") => merkle.verdict

\* A three-leaf list (odd level, padded with the null hash) whose last leaf
\* was proved and verified.
C2_Witness ==
    /\ merkle.pc = "verified" /\ merkle.tampered = "none"
    /\ Len(merkle.tx_hashes) = 3 /\ merkle.tx_index = 2
    /\ merkle.proof[1] = NULL_HASH
    /\ merkle.verdict

\* C6: with a collision-free hash, a proof that verifies no longer verifies
\* once its leaf, one of its siblings or its root is replaced by a different
\* hash.
C6_TamperRejected ==
    (merkle.pc = "verified" /\ merkle.tampered # "none" /\ merkle.honest)
        => ~merkle.verdict

\* A sibling of a two-level proof was replaced and the check refused it.
C6_Witness ==
    /\ merkle.pc = "verified" /\ merkle.tampered = "sibling"
    /\ Len(merkle.proof) = 2
    /\ merkle.honest /\ ~merkle.verdict

\* C10: build_merkle_tree_with_proof fails with an invalid-index error for
\* an empty leaf list and for every index outside 0..len(leaves)-1,
\* negative indices included.
C10_InvalidIndexRaises ==
    (merkle.pc \in {"built", "raised"} /\ ~ValidIndex) => merkle.pc = "raised"

\* Entry a of the mempool comes before entry b in the order of selection:
\* higher fee first, and among equal fees the earlier position first.
SelectedBefore(a, b) ==
    \/ Fee(a) > Fee(b)
    \/ Fee(a) = Fee(b) /\ a.id < b.id

\* C8: select_transactions returns entries of the mempool with
\* lock_time < t only, at most max of them, by fee descending with equal
\* fees in mempool order, and they are the first max entries of that order
\* of all entries with lock_time < t.
C8_SelectionIsTopByFee ==
    sel.pc = "selected" =>
        LET out == sel.selected
            eligible == {j \in 1..Len(sel.mempool) :
                            sel.mempool[j].tx.lock_time < sel.next_block_timestamp}
            chosen == {out[j].id : j \in 1..Len(out)}
        IN  /\ \A j \in 1..Len(out) :
                  /\ out[j].id \in eligible
                  /\ out[j] = sel.mempool[out[j].id]
            /\ Len(out) <= sel.max_count
            /\ \A j, k \in 1..Len(out) : j < k => SelectedBefore(out[j], out[k])
            /\ Len(out) = IF sel.max_count < Cardinality(eligible)
                          THEN sel.max_count ELSE Cardinality(eligible)
            /\ \A e \in eligible \ chosen :
                  \A j \in 1..Len(out) : SelectedBefore(out[j], sel.mempool[e])

\* A selection of two out of three eligible entries that kept two entries of
\* equal fee and left out the first entry of the mempool for its lower fee.
C8_Witness ==
    /\ sel.pc = "selected"
    /\ Len(sel.mempool) = 3 /\ sel.max_count = 2 /\ Len(sel.selected) = 2
    /\ Fee(sel.selected[1]) = Fee(sel.selected[2])
    /\ \A j \in 1..3 :
          sel.mempool[j].tx.lock_time < sel.next_block_timestamp
    /\ Fee(sel.mempool[1]) < Fee(sel.mempool[2])

\* The chain is contiguous and linked.
Linked(chain) ==
    \A k \in 1..Len(chain) :
        LET h == chain[k].header
        IN  /\ h.height = k - 1
            /\ k = 1 => /\ h.previous_block_header_hash = NULL_HASH
                        /\ h.timestamp = GENESIS_TIMESTAMP
            /\ k > 1 => /\ h.previous_block_header_hash = chain[k - 1].header.hash
                        /\ h.timestamp = chain[k - 1].header.timestamp + BLOCK_TIME

\* C1: starting from the empty chain, after any sequence of produce_blocks
\* calls the chain is contiguous and linked: block i has height i, block 0
\* has the null previous hash and the genesis timestamp, every later block
\* has the preceding block's hash and its timestamp + 10.
C1_ChainLinked ==
    /\ Linked(blockchain)
    /\ pc = "done" => Linked(result.chain)

\* Two calls of one block each have returned a chain of two blocks.
C1_Witness ==
    /\ pc = "done"
    /\ Len(entry_chain) = 1 /\ count = 1
    /\ Len(result.chain) = 2
    /\ result.chain[2].header.previous_block_header_hash
          = result.chain[1].header.hash

\* C3 as stated: the hash of a header returned by mine_block starts with
\* exactly difficulty zero characters, no more.
C3_ExactlyDifficultyZeros ==
    pc = "mined" => LeadingZeros(header.hash) = header.difficulty

\* C3, amended: the hash of a header returned by mine_block starts with at
\* least difficulty zero characters.
C3_AtLeastDifficultyZeros ==
    pc = "mined" => LeadingZeros(header.hash) >= header.difficulty

\* mine_block returned a header of difficulty 2 after a failed attempt.
C3_Witness ==
    /\ pc = "mined"
    /\ header.difficulty = 2 /\ header.nonce = 1
    /\ LeadingZeros(header.hash) >= 2

\* C4: with a previous block given, validate_block returns false when the
\* height is not the previous height + 1 or the previous hash is not the
\* previous block's hash; with none given, the difficulty prefix and the
\* Merkle root alone decide.
C4_LinkageChecked ==
    val.pc = "validated" =>
        LET h == val.block.header
        IN  /\ val.previous_block # <<>> =>
                  LET p == val.previous_block[1].header
                  IN  (h.height # p.height + 1
                         \/ h.previous_block_header_hash # p.hash)
                          => ~val.valid
            /\ val.previous_block = <<>> =>
                  (val.valid <=>
                      /\ LeadingZeros(h.hash) >= h.difficulty
                      /\ h.transactions_merkle_root
                            = build_merkle_tree(TxHashes(val.block.transactions)))

\* An unaltered block of height 50 was refused for the previous block's hash
\* alone.
C4_Witness ==
    /\ val.pc = "validated" /\ val.kind = "none"
    /\ val.previous_block # <<>>
    /\ val.block.header.height = val.previous_block[1].header.height + 1
    /\ val.block.header.previous_block_header_hash
          # val.previous_block[1].header.hash
    /\ ~val.valid

\* The contents of the transactions of a list.
Contents(list) == [j \in 1..Len(list) |-> list[j].tx]

\* C5 as stated: any change to the transaction list of a block built by
\* create_block makes validate_block return false.
C5_AnyChangeRejected ==
    (val.pc = "validated"
        /\ Contents(val.block.transactions) # Contents(val.original.transactions))
        => ~val.valid

\* How many entries of the list of hashes are the hash h.
CountOf(hashes, h) == Cardinality({j \in 1..Len(hashes) : hashes[j] = h})

\* C5, amended: for a block built by create_block, any change to
\* block.transactions that changes which transaction hashes the list holds,
\* or how often (replacing, adding or removing transactions), makes
\* validate_block return false; a mere reordering need not (no hash
\* collisions, no transaction with the null hash).
C5_ContentChangeRejected ==
    (val.pc = "validated"
        /\ \E h \in 1..MaxLeafHash :
              CountOf(TxHashes(val.block.transactions), h)
                # CountOf(TxHashes(val.original.transactions), h))
        => ~val.valid

\* A block of two transactions, validated as genesis with the second
\* transaction replaced, was refused although its header is as mined.
C5_Witness ==
    /\ val.pc = "validated" /\ val.kind = "replaced"
    /\ val.previous_block = <<>>
    /\ Len(val.original.transactions) = 2
    /\ val.block.transactions[1].tx = val.original.transactions[1].tx
    /\ val.block.transactions[2].tx # val.original.transactions[2].tx
    /\ ~val.valid

\* The blocks the running or returned call has appended.
NewBlocks(chain) == SubSeq(chain, Len(entry_chain) + 1, Len(chain))

RECURSIVE Placed(_)
\* The transaction objects of a list of blocks, in order.
Placed(blocks) ==
    IF blocks = <<>> THEN <<>>
    ELSE Head(blocks).transactions \o Placed(Tail(blocks))

\* How many entries of the list are the object obj.
Occurrences(list, obj) == Cardinality({j \in 1..Len(list) : list[j] = obj})

\* C7: the returned mempool is the input mempool, in its order, without the
\* transactions placed in the new blocks: every input transaction is in
\* exactly one new block or in the returned mempool, never both, never
\* lost, also among duplicates of equal contents.
C7_MempoolMinusSelected ==
    pc = "done" =>
        LET placed == Placed(NewBlocks(result.chain))
        IN  /\ \A j \in 1..Len(entry_mempool) :
                  Occurrences(placed, entry_mempool[j])
                    + Occurrences(result.mempool, entry_mempool[j]) = 1
            /\ Len(placed) + Len(result.mempool) = Len(entry_mempool)
            /\ result.mempool =
                  SelectSeq(entry_mempool,
                            LAMBDA o : Occurrences(placed, o) = 0)

\* Of two entries of equal contents the first went into a new block and the
\* second came back in the mempool.
C7_Witness ==
    /\ pc = "done"
    /\ \E j, k \in 1..Len(entry_mempool) :
          /\ j < k
          /\ entry_mempool[j].tx = entry_mempool[k].tx
          /\ Occurrences(Placed(NewBlocks(result.chain)), entry_mempool[j]) = 1
          /\ Occurrences(result.mempool, entry_mempool[k]) = 1

\* C9: produce_blocks only appends: the returned chain has count blocks more
\* than the input chain and starts with the input blocks unchanged, and the
\* caller's chain and mempool lists are as they were before the call.
C9_OnlyAppends ==
    /\ pc # "idle" =>
          /\ caller_chain = entry_chain
          /\ caller_mempool = entry_mempool
          /\ SubSeq(blockchain, 1, Len(entry_chain)) = entry_chain
    /\ pc = "done" =>
          /\ Len(result.chain) = Len(entry_chain) + count
          /\ SubSeq(result.chain, 1, Len(entry_chain)) = entry_chain

\* A call given a chain of one block and a mempool of one transaction
\* returned after appending a block that took the transaction.
C9_Witness ==
    /\ pc = "done"
    /\ Len(entry_chain) = 1 /\ count = 1 /\ Len(entry_mempool) = 1
    /\ Len(result.chain) = 2 /\ result.mempool = <<>>
    /\ Len(result.chain[2].transactions) = 1
    /\ caller_chain = entry_chain /\ caller_mempool = entry_mempool

\* The fields a serializer encodes: all of a transaction, all but hash of a
\* block header.
EncodedFields ==
    IF ser.kind = "block_header" THEN (DOMAIN ser.fields) \ {"hash"}
    ELSE DOMAIN ser.fields

\* C11: serialization fails with a serialization error whenever a field
\* value is neither an integer nor a string, instead of producing a string.
C11_UnsupportedValueRaises ==
    (ser.pc = "done"
        /\ \E k \in EncodedFields :
              ser.fields[k].type \notin {"int", "bool", "str"})
        => ser.raised

\* The difficulty d is min(1 + floor(height / 50), 6).
DifficultyOf(height, d) ==
    /\ d \in 1..MAX_DIFFICULTY
    /\ d < MAX_DIFFICULTY =>
          /\ DIFFICULTY_INCREASE_INTERVAL * (d - 1) <= height
          /\ height < DIFFICULTY_INCREASE_INTERVAL * d
    /\ d = MAX_DIFFICULTY =>
          DIFFICULTY_INCREASE_INTERVAL * (MAX_DIFFICULTY - 1) <= height

\* C12: every block appended by produce_blocks has a header consistent with
\* its contents: difficulty = min(1 + floor(height / 50), 6), never lower
\* than in the block before; transactions_count = the number of the block's
\* transactions, at most MAX_TRANSACTIONS_PER_BLOCK; transactions_merkle_root
\* = build_merkle_tree of the hashes of its transactions, the null hash for
\* an empty block.  Before the first block the difficulty rule is checked
\* for every height up to the cap and beyond.
C12_HeaderMatchesContents ==
    /\ \A k \in 1..Len(blockchain) :
          LET h == blockchain[k].header
              transactions == blockchain[k].transactions
          IN  /\ DifficultyOf(h.height, h.difficulty)
              /\ k > 1 => blockchain[k - 1].header.difficulty <= h.difficulty
              /\ h.transactions_count = Len(transactions)
              /\ h.transactions_count <= MAX_TRANSACTIONS_PER_BLOCK
              /\ h.transactions_merkle_root
                    = build_merkle_tree(TxHashes(transactions))
              /\ transactions = <<>> => h.transactions_merkle_root = NULL_HASH
    /\ pc = "idle" =>
          \A height \in 0..((MAX_DIFFICULTY + 1) * DIFFICULTY_INCREASE_INTERVAL) :
              /\ DifficultyOf(height, calculate_difficulty(height))
              /\ calculate_difficulty(height) <= calculate_difficulty(height + 1)

\* A returned chain holds a full block with a root above the leaves and,
\* after it, an empty block.
C12_Witness ==
    /\ pc = "done" /\ Len(result.chain) = 2
    /\ Len(result.chain[1].transactions) = MAX_TRANSACTIONS_PER_BLOCK
    /\ result.chain[1].header.transactions_count = MAX_TRANSACTIONS_PER_BLOCK
    /\ result.chain[1].header.transactions_merkle_root > MaxLeafHash
    /\ result.chain[2].transactions = <<>>
    /\ result.chain[2].header.transactions_merkle_root = NULL_HASH

\* The header being mined with nonce n and without its hash.
WithNonce(n) ==
    [k \in (DOMAIN header) \ {"hash"} |->
        IF k = "nonce" THEN n ELSE header[k]]

\* The digests recorded for the header with nonce n.
DigestsOf(n) ==
    {q[2] : q \in {r \in sha_memo : r[1] = SortedValues(WithNonce(n))}}

\* The header with nonce n was hashed and its hash misses the prefix.
TriedInVain(n) ==
    /\ DigestsOf(n) # {}
    /\ \A d \in DigestsOf(n) : LeadingZeros(d) < header.difficulty

\* C13: mine_block tries the nonces 0, 1, 2, ... in order whatever nonce the
\* header came with; it returns only with the least nonce whose header hash
\* (hash field left out) meets the difficulty prefix, with that hash in the
\* hash field, and hashing the returned header again gives header.hash; as
\* long as no nonce tried meets the prefix the search goes on.
C13_LeastNonceAndItsHash ==
    /\ pc = "mine" => \A n \in 0..(nonce - 1) : TriedInVain(n)
    /\ pc = "mined" =>
          /\ \A n \in 0..(header.nonce - 1) : TriedInVain(n)
          /\ DigestsOf(header.nonce) = {header.hash}
          /\ LeadingZeros(header.hash) >= header.difficulty
          /\ hash_block_header(sha_memo, header) = {header.hash}

\* A header that came with nonce 2 and an old hash was returned with nonce
\* 1 and the hash of that attempt.
C13_Witness ==
    /\ pc = "mined"
    /\ header.nonce = 1 /\ header.difficulty = 2
    /\ header.hash # StrangerHash
    /\ TriedInVain(0)
    /\ DigestsOf(2) = {}

\* C14: with a blockchain provided, verify_inclusion_proof returns true only
\* if the proof's merkle_root is the transactions_merkle_root of the chain's
\* block at proof.block_height; a proof whose block_height is not in the
\* chain, or that is checked against an empty chain, is not accepted.
C14_AcceptedOnlyIfRootInChain ==
    (incl.pc = "verified" /\ incl.blockchain # <<>> /\ incl.outcome = "true")
        => LET chain == incl.blockchain[1]
               block_height == incl.proof.block_height
           IN  /\ block_height \in 0..(Len(chain) - 1)
               /\ incl.proof.merkle_root
                     = chain[block_height + 1].header.transactions_merkle_root

\* C15: the result of verify_merkle_proof depends on the leaf hash, the
\* sibling list and the root only: two calls that differ in tx_index and
\* total_txs alone return the same boolean.
C15_PositionIgnored ==
    merkle.pc = "compared" => merkle.first.verdict = merkle.second.verdict

\* A proof of two siblings was accepted at a position that puts the leaf
\* left twice and at one that puts it right twice, with different totals.
C15_Witness ==
    /\ merkle.pc = "compared"
    /\ Len(merkle.proof) = 2 /\ merkle.proof[1] # merkle.tx_hash
    /\ merkle.first.tx_index = 0 /\ merkle.second.tx_index = 3
    /\ merkle.first.total_txs # merkle.second.total_txs
    /\ merkle.first.verdict /\ merkle.second.verdict

====
